---- MODULE Spec2Model ----
(***************************************************************************)
(* The MQ data producer (ibm-mq/data-producer/producer.py) as a state      *)
(* machine.  One step is one statement of the script; pc holds the line    *)
(* of the statement that runs next ("L116" is line 116).  The statements   *)
(* of connect_to_mq and send_message are steps of their own, since the     *)
(* exception handlers of main see them fail one by one.                    *)
(*                                                                         *)
(* External calls (pymqi.connect, generate_transaction, pymqi.Queue,       *)
(* queue.put, queue.close, qmgr.disconnect) complete or raise Exception,   *)
(* chosen nondeterministically.  print is modelled as an append to log     *)
(* and does not raise.  A KeyboardInterrupt can be raised while any        *)
(* statement runs (action Interrupt): the statement does not complete,     *)
(* and for an external call the call's effect may or may not have taken    *)
(* place.  Which handler receives an exception follows the try blocks      *)
(* around the statement (ExceptionHandler, InterruptHandler).              *)
(*                                                                         *)
(* In Spec a record is modelled by its generation number; what is put on   *)
(* the queue is the number of the record put.  The content of a record,    *)
(* its JSON text and the bytes of the payload are the subject of GenSpec,  *)
(* which follows one record through generate_transaction, json.dumps and   *)
(* encode for a range of states of the random generator.                   *)
(***************************************************************************)
EXTENDS Integers, Sequences, FiniteSets

\* Bounds of the model.
MaxIter == 3
MaxInterrupts == 2
MaxCalls == 2
MaxSeed == 23

VARIABLES
    pc,               \* line of the statement to run next, or "done"
    exit,             \* "running", "returned" (normal end), "raised" (an exception left the script)
    pending,          \* an exception raised inside an except clause waits for the finally block to end
    environ,          \* os.environ, restricted to MESSAGE_INTERVAL
    MESSAGE_INTERVAL, \* line 23
    held,             \* the queue manager connection is open
    connectCalls,     \* calls of pymqi.connect so far
    disconnectCalls,  \* calls of qmgr.disconnect so far
    generated,        \* records returned by generate_transaction so far
    transaction,      \* local of main: the current record (its generation number)
    attempts,         \* records passed to send_message, in call order
    handles,          \* queue handles open on the queue manager
    succeeded,        \* calls of send_message that returned normally
    failed,           \* calls of send_message that raised Exception
    message_count,    \* local of main, line 111
    mq,               \* records put on the queue, in order
    log,              \* console output, one entry per print statement group
    interrupts,       \* KeyboardInterrupts raised so far
    raised,           \* the exceptions raised so far: their kind and the statement that raised them
    sleeps,           \* calls of time.sleep that returned
    slept             \* seconds slept so far

\* The record generator and the serialization of send_message, run on their own
\* (specification GenSpec); in Spec these variables do not change.
VARIABLES
    rng,              \* state of the pseudo-random generator behind random and Faker
    message_data,     \* the record returned by generate_transaction, as passed to send_message
    message_json,     \* send_message, line 86
    payload,          \* the bytes given to queue.put, line 89
    gpc,              \* "generate", "dumps", "put" or "idle"
    gcalls            \* calls of generate_transaction so far

gen == <<rng, message_data, message_json, payload, gpc, gcalls>>

cfg == <<environ, MESSAGE_INTERVAL>>
conn == <<held, connectCalls, disconnectCalls>>
loopv == <<generated, transaction, attempts, message_count, sleeps, slept>>
pub == <<handles, succeeded, failed, mq>>
mainv == <<pc, exit, pending, environ, MESSAGE_INTERVAL, held, connectCalls,
           disconnectCalls, generated, transaction, attempts, handles, succeeded,
           failed, message_count, mq, log, interrupts, raised, sleeps, slept>>
vars == <<pc, exit, pending, environ, MESSAGE_INTERVAL, held, connectCalls,
          disconnectCalls, generated, transaction, attempts, handles, succeeded,
          failed, message_count, mq, log, interrupts, raised, sleeps, slept, gen>>

----------------------------------------------------------------------------
\* Configuration (line 23): MESSAGE_INTERVAL = int(os.getenv('MESSAGE_INTERVAL', '5'))

\* Values of the environment variable tried; a string is a sequence of characters.
IntervalStrings == { <<"0">>, <<"1", "2">>, <<"-", "1">>, <<"5", "s">> }

Environments == { [n \in {} |-> <<>>] } \cup
                { [n \in {"MESSAGE_INTERVAL"} |-> s] : s \in IntervalStrings }

getenv(name, default) == IF name \in DOMAIN environ THEN environ[name] ELSE default

Digits == <<"0", "1", "2", "3", "4", "5", "6", "7", "8", "9">>

IsDigit(c) == \E i \in 1..Len(Digits) : Digits[i] = c

DigitValue(c) == (CHOOSE i \in 1..Len(Digits) : Digits[i] = c) - 1

RECURSIVE DecimalValue(_)
DecimalValue(s) ==
    IF s = <<>> THEN 0
    ELSE DecimalValue(SubSeq(s, 1, Len(s) - 1)) * 10 + DigitValue(s[Len(s)])

\* int(s) for a string of an optional sign and decimal digits; anything else
\* is a ValueError (ok = FALSE).
int(s) ==
    LET signed == s # <<>> /\ s[1] \in {"-", "+"}
        body == IF signed THEN Tail(s) ELSE s
    IN  IF body # <<>> /\ \A i \in 1..Len(body) : IsDigit(body[i])
        THEN [ok |-> TRUE,
              value |-> IF signed /\ s[1] = "-" THEN 0 - DecimalValue(body)
                        ELSE DecimalValue(body)]
        ELSE [ok |-> FALSE, value |-> 0]

----------------------------------------------------------------------------
\* Values of Python as far as the record needs them: str, float, dict, None.
\* A string is a sequence of characters; a float is the decimal m * 10^(-e)
\* with no trailing zero in m when e > 0 (floats of at most 15 significant
\* digits are the decimals their repr shows); a dict is the sequence of its
\* items in insertion order.

Chars(s) == [i \in 1..Len(s) |-> SubSeq(s, i, i)]

\* The character e-acute (U+00E9), written as a token of its own.
EAcute == "U+00E9"

Str(s) == [t |-> "str", s |-> s, m |-> 0, e |-> 0, d |-> <<>>]

None == [t |-> "null", s |-> <<>>, m |-> 0, e |-> 0, d |-> <<>>]

RECURSIVE Float(_, _)
Float(m, e) ==
    IF e > 0 /\ m % 10 = 0 THEN Float(m \div 10, e - 1)
    ELSE [t |-> "num", s |-> <<>>, m |-> m, e |-> e, d |-> <<>>]

Dict(items) == [t |-> "dict", s |-> <<>>, m |-> 0, e |-> 0, d |-> items]

Item(k, v) == [k |-> Chars(k), v |-> v]

\* str(n) of a non-negative int, as the f-strings of lines 36, 44, 59 format it.
RECURSIVE str(_)
str(n) == IF n < 10 THEN <<Digits[n + 1]>> ELSE str(n \div 10) \o <<Digits[(n % 10) + 1]>>

----------------------------------------------------------------------------
\* Exception handling structure of the script.

ConnectStmts == {"L65", "L70", "L78", "L79"}                 \* try of line 105
SendStmts == {"L120", "L83", "L86", "L89", "L91", "L92", "L121", "L123"}  \* try of line 119
LoopStmts == {"L116", "L131", "L134"} \cup SendStmts         \* try of line 113
OuterHandlerStmts == {"L137", "L139"}                        \* except clauses of lines 136, 138
FinallyStmts == {"L142", "L143"}                             \* try of line 141

Caught(l) == [to |-> l, reraise |-> FALSE]
ToFinally == [to |-> "L142", reraise |-> TRUE]
Uncaught == [to |-> "done", reraise |-> TRUE]

\* ExceptionHandler with generate_transaction inside the try of line 119.
ExceptionHandler_GenerateInInnerTry(p) ==
    IF p \in ConnectStmts THEN Caught("L108")
    ELSE IF p \in SendStmts \cup {"L116"} THEN Caught("L131")
    ELSE IF p \in LoopStmts THEN Caught("L139")
    ELSE IF p \in OuterHandlerStmts THEN ToFinally
    ELSE IF p \in FinallyStmts THEN Caught("L145")
    ELSE Uncaught

\* ExceptionHandler without the try of line 141 around qmgr.disconnect().
ExceptionHandler_NoFinallyTry(p) ==
    IF p \in ConnectStmts THEN Caught("L108")
    ELSE IF p \in SendStmts THEN Caught("L131")
    ELSE IF p \in LoopStmts THEN Caught("L139")
    ELSE IF p \in OuterHandlerStmts THEN ToFinally
    ELSE Uncaught

\* ExceptionHandler without the try of line 119 around send_message.
ExceptionHandler_NoInnerTry(p) ==
    IF p \in ConnectStmts THEN Caught("L108")
    ELSE IF p \in LoopStmts THEN Caught("L139")
    ELSE IF p \in OuterHandlerStmts THEN ToFinally
    ELSE IF p \in FinallyStmts THEN Caught("L145")
    ELSE Uncaught

\* Where control goes when the statement at p raises an Exception.
ExceptionHandler(p) ==
    IF p \in ConnectStmts THEN Caught("L108")
    ELSE IF p \in SendStmts THEN Caught("L131")
    ELSE IF p \in LoopStmts THEN Caught("L139")
    ELSE IF p \in OuterHandlerStmts THEN ToFinally
    ELSE IF p \in FinallyStmts THEN Caught("L145")
    ELSE Uncaught

\* As if the handler of line 130 were "except BaseException": the interrupt of a
\* publish is handled as a publish failure.
InterruptHandler_SwallowedByInner(p) ==
    IF p \in SendStmts THEN Caught("L131")
    ELSE IF p \in LoopStmts THEN Caught("L137")
    ELSE IF p \in OuterHandlerStmts THEN ToFinally
    ELSE IF p \in FinallyStmts THEN Caught("L145")
    ELSE Uncaught

\* Where control goes when a KeyboardInterrupt is raised at the statement at p:
\* "except Exception" does not catch it, "except KeyboardInterrupt" and the
\* bare "except:" do.
InterruptHandler(p) ==
    IF p \in LoopStmts THEN Caught("L137")
    ELSE IF p \in OuterHandlerStmts THEN ToFinally
    ELSE IF p \in FinallyStmts THEN Caught("L145")
    ELSE Uncaught

Transfer(h) ==
    /\ pc' = h.to
    /\ pending' = (pending \/ (h.reraise /\ h.to # "done"))
    /\ exit' = IF h.to = "done" THEN "raised" ELSE exit

Goto(l) == pc' = l /\ UNCHANGED <<exit, pending, raised>>

Raised(kind, p) == [kind |-> kind, at |-> p]

\* The statement at p raises an exception of the given kind.
Throw(kind, p) ==
    /\ raised' = raised \cup {Raised(kind, p)}
    /\ Transfer(IF kind = "KeyboardInterrupt" THEN InterruptHandler(p)
                ELSE ExceptionHandler(p))

\* The end of main after the finally block: a pending exception is re-raised.
EndOfFinally ==
    /\ pc' = "done"
    /\ exit' = IF pending THEN "raised" ELSE "returned"
    /\ UNCHANGED <<pending, raised>>

Entry(kind, n) == [kind |-> kind, n |-> n]

print(kind, n) == log' = Append(log, Entry(kind, n))

----------------------------------------------------------------------------
\* The script at its start.
MainInit ==
    /\ pc = "L23"
    /\ exit = "running"
    /\ pending = FALSE
    /\ environ \in Environments
    /\ MESSAGE_INTERVAL = 0
    /\ held = FALSE
    /\ connectCalls = 0
    /\ disconnectCalls = 0
    /\ generated = 0
    /\ transaction = 0
    /\ attempts = <<>>
    /\ handles = 0
    /\ succeeded = 0
    /\ failed = 0
    /\ message_count = 0
    /\ mq = <<>>
    /\ log = <<>>
    /\ interrupts = 0
    /\ raised = {}
    /\ sleeps = 0
    /\ slept = 0

Init ==
    /\ MainInit
    /\ rng = 0
    /\ message_data = None
    /\ message_json = <<>>
    /\ payload = <<>>
    /\ gpc = "idle"
    /\ gcalls = 0

\* line 23
LoadConfig ==
    /\ pc = "L23"
    /\ LET r == int(getenv("MESSAGE_INTERVAL", <<"5">>))
       IN  IF r.ok
           THEN MESSAGE_INTERVAL' = r.value /\ Goto("L96")
           ELSE UNCHANGED MESSAGE_INTERVAL /\ Throw("ValueError", "L23")
    /\ UNCHANGED <<environ, conn, loopv, pub, log, interrupts, gen>>

\* main, lines 96-102
Banner ==
    /\ pc = "L96"
    /\ print("banner", 0)
    /\ Goto("L65")
    /\ UNCHANGED <<cfg, conn, loopv, pub, interrupts, gen>>

\* connect_to_mq, lines 65-68
ConnectBanner ==
    /\ pc = "L65"
    /\ print("connecting", 0)
    /\ Goto("L70")
    /\ UNCHANGED <<cfg, conn, loopv, pub, interrupts, gen>>

\* connect_to_mq, lines 70-76
PymqiConnect ==
    /\ pc = "L70"
    /\ connectCalls' = connectCalls + 1
    /\ \/ held' = TRUE /\ Goto("L78")
       \/ UNCHANGED held /\ Throw("Exception", "L70")
    /\ UNCHANGED <<cfg, disconnectCalls, loopv, pub, log, interrupts, gen>>

\* connect_to_mq, line 78
ConnectedLog ==
    /\ pc = "L78"
    /\ print("connected", 0)
    /\ Goto("L79")
    /\ UNCHANGED <<cfg, conn, loopv, pub, interrupts, gen>>

\* connect_to_mq, line 79, and the assignment of line 106
ConnectReturn ==
    /\ pc = "L79"
    /\ Goto("L111")
    /\ UNCHANGED <<cfg, conn, loopv, pub, log, interrupts, gen>>

\* main, line 108
ConnectFailedLog ==
    /\ pc = "L108"
    /\ print("connect_failed", 0)
    /\ Goto("L109")
    /\ UNCHANGED <<cfg, conn, loopv, pub, interrupts, gen>>

\* ConnectFailedReturn without the return statement: control falls through to line 111.
ConnectFailedReturn_FallThrough ==
    /\ pc = "L109"
    /\ Goto("L111")
    /\ UNCHANGED <<cfg, conn, loopv, pub, log, interrupts, gen>>

\* main, line 109
ConnectFailedReturn ==
    /\ pc = "L109"
    /\ pc' = "done"
    /\ exit' = "returned"
    /\ UNCHANGED <<pending, raised, cfg, conn, loopv, pub, log, interrupts, gen>>

\* main, line 111
InitCount ==
    /\ pc = "L111"
    /\ message_count' = 0
    /\ Goto("L116")
    /\ UNCHANGED <<cfg, conn, generated, transaction, attempts, sleeps, slept, pub, log, interrupts, gen>>

\* main, line 116
Generate ==
    /\ pc = "L116"
    /\ generated < MaxIter
    /\ \/ /\ generated' = generated + 1
          /\ transaction' = generated + 1
          /\ Goto("L120")
       \/ /\ UNCHANGED <<generated, transaction>>
          /\ Throw("Exception", "L116")
    /\ UNCHANGED <<cfg, conn, attempts, message_count, sleeps, slept, pub, log, interrupts, gen>>

\* main, line 120: the call of send_message
CallSend ==
    /\ pc = "L120"
    /\ attempts' = Append(attempts, transaction)
    /\ Goto("L83")
    /\ UNCHANGED <<cfg, conn, generated, transaction, message_count, sleeps, slept, pub, log, interrupts, gen>>

\* send_message, line 83
QueueOpen ==
    /\ pc = "L83"
    /\ \/ /\ handles' = handles + 1
          /\ UNCHANGED failed
          /\ Goto("L86")
       \/ /\ failed' = failed + 1
          /\ UNCHANGED handles
          /\ Throw("Exception", "L83")
    /\ UNCHANGED <<cfg, conn, loopv, succeeded, mq, log, interrupts, gen>>

\* send_message, line 86
Dumps ==
    /\ pc = "L86"
    /\ Goto("L89")
    /\ UNCHANGED <<cfg, conn, loopv, pub, log, interrupts, gen>>

\* send_message, line 89
Put ==
    /\ pc = "L89"
    /\ \/ /\ mq' = Append(mq, transaction)
          /\ UNCHANGED failed
          /\ Goto("L91")
       \/ /\ failed' = failed + 1
          /\ UNCHANGED mq
          /\ Throw("Exception", "L89")
    /\ UNCHANGED <<cfg, conn, loopv, handles, succeeded, log, interrupts, gen>>

\* send_message, line 91
Close ==
    /\ pc = "L91"
    /\ \/ /\ handles' = handles - 1
          /\ UNCHANGED failed
          /\ Goto("L92")
       \/ /\ failed' = failed + 1
          /\ handles' \in {handles, handles - 1}
          /\ Throw("Exception", "L91")
    /\ UNCHANGED <<cfg, conn, loopv, succeeded, mq, log, interrupts, gen>>

\* send_message, line 92, and the assignment of line 120
SendReturn ==
    /\ pc = "L92"
    /\ succeeded' = succeeded + 1
    /\ Goto("L121")
    /\ UNCHANGED <<cfg, conn, loopv, handles, failed, mq, log, interrupts, gen>>

\* main, line 121
Increment ==
    /\ pc = "L121"
    /\ message_count' = message_count + 1
    /\ Goto("L123")
    /\ UNCHANGED <<cfg, conn, generated, transaction, attempts, sleeps, slept, pub, log, interrupts, gen>>

\* main, lines 123-128
SentLog ==
    /\ pc = "L123"
    /\ print("sent", message_count)
    /\ Goto("L134")
    /\ UNCHANGED <<cfg, conn, loopv, pub, interrupts, gen>>

\* SendFailedLog that sends the same record again instead of sleeping.
SendFailedLog_Retry ==
    /\ pc = "L131"
    /\ print("send_failed", 0)
    /\ Goto("L120")
    /\ UNCHANGED <<cfg, conn, loopv, pub, interrupts, gen>>

\* SendFailedLog followed by "continue": the sleep of line 134 is skipped.
SendFailedLog_SkipSleep ==
    /\ pc = "L131"
    /\ print("send_failed", 0)
    /\ Goto("L116")
    /\ UNCHANGED <<cfg, conn, loopv, pub, interrupts, gen>>

\* SendFailedLog that counts the failed message as sent.
SendFailedLog_Counting ==
    /\ pc = "L131"
    /\ print("send_failed", 0)
    /\ message_count' = message_count + 1
    /\ Goto("L134")
    /\ UNCHANGED <<cfg, conn, generated, transaction, attempts, sleeps, slept, pub, interrupts, gen>>

\* main, line 131
SendFailedLog ==
    /\ pc = "L131"
    /\ print("send_failed", 0)
    /\ Goto("L134")
    /\ UNCHANGED <<cfg, conn, loopv, pub, interrupts, gen>>

\* main, line 134: time.sleep raises ValueError for a negative length
Sleep ==
    /\ pc = "L134"
    /\ IF MESSAGE_INTERVAL < 0
       THEN UNCHANGED <<sleeps, slept>> /\ Throw("ValueError", "L134")
       ELSE /\ sleeps' = sleeps + 1
            /\ slept' = slept + MESSAGE_INTERVAL
            /\ Goto("L116")
    /\ UNCHANGED <<cfg, conn, generated, transaction, attempts, message_count, pub, log, interrupts, gen>>

\* main, line 137
StoppedLog ==
    /\ pc = "L137"
    /\ print("stopped_by_user", 0)
    /\ Goto("L142")
    /\ UNCHANGED <<cfg, conn, loopv, pub, interrupts, gen>>

\* main, line 139
LoopErrorLog ==
    /\ pc = "L139"
    /\ print("loop_error", 0)
    /\ Goto("L142")
    /\ UNCHANGED <<cfg, conn, loopv, pub, interrupts, gen>>

\* main, line 142
Disconnect ==
    /\ pc = "L142"
    /\ disconnectCalls' = disconnectCalls + 1
    /\ \/ held' = FALSE /\ Goto("L143")
       \/ held' \in {held, FALSE} /\ Throw("Exception", "L142")
    /\ UNCHANGED <<cfg, connectCalls, loopv, pub, log, interrupts, gen>>

\* As if the finally block were inside the while loop: the loop goes on
\* after the disconnect.
TotalLog_InsideLoop ==
    /\ pc = "L143"
    /\ print("total", message_count)
    /\ Goto("L116")
    /\ UNCHANGED <<cfg, conn, loopv, pub, interrupts, gen>>

\* main, line 143
TotalLog ==
    /\ pc = "L143"
    /\ print("total", message_count)
    /\ EndOfFinally
    /\ UNCHANGED <<cfg, conn, loopv, pub, interrupts, gen>>

\* main, line 145
Pass ==
    /\ pc = "L145"
    /\ EndOfFinally
    /\ UNCHANGED <<cfg, conn, loopv, pub, log, interrupts, gen>>

\* A KeyboardInterrupt is raised while the statement at pc runs.  The
\* statement does not complete; an external call that was under way may or
\* may not have had its effect.
Interrupt ==
    /\ pc # "done"
    /\ interrupts < MaxInterrupts
    /\ interrupts' = interrupts + 1
    /\ Throw("KeyboardInterrupt", pc)
    /\ connectCalls' = IF pc = "L70" THEN connectCalls + 1 ELSE connectCalls
    /\ disconnectCalls' = IF pc = "L142" THEN disconnectCalls + 1 ELSE disconnectCalls
    /\ held' \in CASE pc = "L70" -> {held, TRUE}
                   [] pc = "L142" -> {held, FALSE}
                   [] OTHER -> {held}
    /\ handles' \in CASE pc = "L83" -> {handles, handles + 1}
                      [] pc = "L91" -> {handles, handles - 1}
                      [] OTHER -> {handles}
    /\ mq' \in IF pc = "L89" THEN {mq, Append(mq, transaction)} ELSE {mq}
    /\ UNCHANGED <<cfg, loopv, succeeded, failed, log, gen>>

\* The statements of the script.
Step ==
    \/ LoadConfig
    \/ Banner
    \/ ConnectBanner
    \/ PymqiConnect
    \/ ConnectedLog
    \/ ConnectReturn
    \/ ConnectFailedLog
    \/ ConnectFailedReturn
    \/ InitCount
    \/ Generate
    \/ CallSend
    \/ QueueOpen
    \/ Dumps
    \/ Put
    \/ Close
    \/ SendReturn
    \/ Increment
    \/ SentLog
    \/ SendFailedLog
    \/ Sleep
    \/ StoppedLog
    \/ LoopErrorLog
    \/ Disconnect
    \/ TotalLog
    \/ Pass

Next == Step \/ Interrupt

Spec == Init /\ [][Next]_vars

\* The script is one sequential process: the statement at pc runs to its end
\* (returns or raises) unless the process has stopped.  Interrupts are never
\* forced.
FairSpec == Spec /\ WF_vars(Step)

----------------------------------------------------------------------------
\* The random module.  random.random() is k / RandomScale for the state k of
\* the generator, which a linear congruential step advances at every draw.

RandomScale == 1000 * 1000

NextRandom(k) == (1021 * k + 7) % RandomScale

\* The state after i draws.
RECURSIVE Draw(_, _)
Draw(k, i) == IF i = 0 THEN k ELSE Draw(NextRandom(k), i - 1)

\* The whole and the fractional part (in units of 1 / RandomScale) of
\* n * k / RandomScale, for n up to 2 * RandomScale.
MulParts(k, n) ==
    LET a == (k \div 1000) * n
        b == (a % 1000) * 1000 + (k % 1000) * n
    IN  [q |-> a \div 1000 + b \div RandomScale, r |-> b % RandomScale]

\* random.choice(seq) = seq[floor(random() * len(seq))]
choice(seq, k) == seq[MulParts(k, Len(seq)).q + 1]

\* random.randint(a, b) = a + floor(random() * (b - a + 1))
randint(a, b, k) == a + MulParts(k, b - a + 1).q

\* random.uniform(a, b) = a + (b - a) * random(), with a and b in cents: the
\* whole cents and the rest in units of 1 / RandomScale of a cent.
uniform(a, b, k) == [q |-> a + MulParts(k, b - a).q, r |-> MulParts(k, b - a).r]

\* round(x, 3) instead of round(x, 2).
round_ThreeDigits(x) ==
    LET mills == x.q * 10 + (x.r * 10) \div RandomScale
        rest == (x.r * 10) % RandomScale
    IN  Float(IF 2 * rest >= RandomScale THEN mills + 1 ELSE mills, 3)

\* round(x, 2): to the nearest cent, a tie to the even one.
round(x) ==
    Float(IF 2 * x.r > RandomScale \/ (2 * x.r = RandomScale /\ x.q % 2 = 1)
          THEN x.q + 1 ELSE x.q, 2)

----------------------------------------------------------------------------
\* generate_transaction, lines 27-61.

transaction_types == <<Chars("purchase"), Chars("refund"), Chars("payment"),
                       Chars("transfer"), Chars("deposit"), Chars("withdrawal")>>
categories == <<Chars("electronics"), Chars("clothing"), Chars("food"),
                Chars("services"), Chars("utilities"), Chars("entertainment")>>
statuses == <<Chars("completed"), Chars("pending"), Chars("failed"), Chars("processing")>>
currencies == <<Chars("USD"), Chars("EUR"), Chars("GBP")>>
payment_methods == <<Chars("credit_card"), Chars("debit_card"), Chars("paypal"),
                     Chars("bank_transfer"), Chars("cash")>>
device_types == <<Chars("mobile"), Chars("web"), Chars("pos"), Chars("atm")>>

\* What Faker and the clock return, drawn from samples.
SampleUuids == <<Chars("6fa459ea-ee8a-4ca4-894e-db77e160355e"),
                 Chars("16fd2706-8baf-433b-82eb-8c7fada847da")>>
SampleTimes == <<Chars("2024-05-01T12:30:00.123456"), Chars("2024-05-01T12:30:00")>>
SampleNames == <<Chars("Ann Lee"), Chars("Ren") \o <<EAcute>> \o Chars(" O'Neil"),
                 Chars("Bo \"BJ\" Diaz")>>
SampleEmails == <<Chars("ann@example.org"), Chars("bo_1@example.com")>>
SampleCompanies == <<Chars("Hill-Walker"), Chars("Smith, Jones and Lee"), Chars("A\\B Ltd")>>
SampleCities == <<Chars("Port Anna"), Chars("Lake Bo")>>
SampleCountries == <<Chars("Peru"), Chars("Cote d'Ivoire")>>
SampleLatitudes == <<Float(0 - 90, 0), Float(0, 7), Float(2, 5), Float(120345678, 7),
                     Float(0 - 5, 1)>>
SampleLongitudes == <<Float(0 - 179999999, 6), Float(100, 0), Float(1, 6), Float(15, 1)>>
SampleIps == <<Chars("192.168.0.1"), Chars("10.0.0.254")>>
SampleAgents == <<Chars("Mozilla/5.0 (X11; Linux x86_64)"), Chars("Opera/9.80 (U; en)")>>
SampleUrls == <<Chars("https://www.example.com/"), Chars("http://a.org/x?y=1&z=2")>>

\* The record generate_transaction returns when the generator is in state k.
generate_transaction(k) ==
    Dict(<<
        Item("transaction_id", Str(choice(SampleUuids, Draw(k, 1)))),
        Item("timestamp", Str(choice(SampleTimes, Draw(k, 2)) \o Chars("Z"))),
        Item("customer_id", Str(Chars("CUST-") \o str(randint(10000, 99999, Draw(k, 3))))),
        Item("customer_name", Str(choice(SampleNames, Draw(k, 4)))),
        Item("customer_email", Str(choice(SampleEmails, Draw(k, 5)))),
        Item("transaction_type", Str(choice(transaction_types, Draw(k, 6)))),
        Item("category", Str(choice(categories, Draw(k, 7)))),
        Item("amount", round(uniform(1000, 500000, Draw(k, 8)))),
        Item("currency", Str(choice(currencies, Draw(k, 9)))),
        Item("status", Str(choice(statuses, Draw(k, 10)))),
        Item("merchant_id", Str(Chars("MERCH-") \o str(randint(1000, 9999, Draw(k, 11))))),
        Item("merchant_name", Str(choice(SampleCompanies, Draw(k, 12)))),
        Item("location", Dict(<<
            Item("city", Str(choice(SampleCities, Draw(k, 13)))),
            Item("country", Str(choice(SampleCountries, Draw(k, 14)))),
            Item("latitude", choice(SampleLatitudes, Draw(k, 15))),
            Item("longitude", choice(SampleLongitudes, Draw(k, 16)))>>)),
        Item("payment_method", Str(choice(payment_methods, Draw(k, 17)))),
        Item("device_type", Str(choice(device_types, Draw(k, 18)))),
        Item("ip_address", Str(choice(SampleIps, Draw(k, 19)))),
        Item("user_agent", Str(choice(SampleAgents, Draw(k, 20)))),
        Item("metadata", Dict(<<
            Item("session_id", Str(choice(SampleUuids, Draw(k, 21)))),
            Item("referrer", Str(choice(SampleUrls, Draw(k, 22)))),
            Item("campaign_id", Str(Chars("CAMP-") \o str(randint(100, 999, Draw(k, 23)))))>>))
    >>)

\* The draws one call of generate_transaction makes.
DrawsPerCall == 23

----------------------------------------------------------------------------
\* json.dumps(message_data, indent=2), line 86.

LF == "\n"

\* The characters outside ASCII that occur, with the four hex digits of their
\* code point and their UTF-8 bytes.
NonAscii == <<[c |-> EAcute, hex |-> Chars("00e9"), utf8 |-> <<195, 169>>]>>

IsNonAscii(c) == \E i \in 1..Len(NonAscii) : NonAscii[i].c = c

NonAsciiOf(c) == NonAscii[CHOOSE i \in 1..Len(NonAscii) : NonAscii[i].c = c]

\* ensure_ascii is on by default: quote, backslash and newline get a
\* backslash, a character outside ASCII becomes \uXXXX.
escape(c) ==
    IF c = "\"" THEN <<"\\", "\"">>
    ELSE IF c = "\\" THEN <<"\\", "\\">>
    ELSE IF c = LF THEN <<"\\", "n">>
    ELSE IF IsNonAscii(c) THEN <<"\\", "u">> \o NonAsciiOf(c).hex
    ELSE <<c>>

\* The concatenation of a sequence of sequences.
RECURSIVE Flatten(_)
Flatten(ss) ==
    IF ss = <<>> THEN <<>>
    ELSE IF Len(ss) = 1 THEN ss[1]
    ELSE Flatten(SubSeq(ss, 1, Len(ss) \div 2)) \o
         Flatten(SubSeq(ss, Len(ss) \div 2 + 1, Len(ss)))

encode_basestring_ascii(s) ==
    <<"\"">> \o Flatten([i \in 1..Len(s) |-> escape(s[i])]) \o <<"\"">>

RECURSIVE Pow10(_)
Pow10(n) == IF n = 0 THEN 1 ELSE 10 * Pow10(n - 1)

Zeros(n) == [i \in 1..n |-> "0"]

\* float.__repr__ without zero padding of the fraction.
float_repr_Unpadded(v) ==
    LET a == IF v.m < 0 THEN 0 - v.m ELSE v.m
        sign == IF v.m < 0 THEN <<"-">> ELSE <<>>
    IN  sign \o str(a \div Pow10(v.e)) \o <<".">> \o str(a % Pow10(v.e))

\* float.__repr__: the shortest digits that read back as the same float, in
\* positional notation with at least one digit after the point, or in
\* scientific notation when the value is below 1e-4.
float_repr(v) ==
    LET a == IF v.m < 0 THEN 0 - v.m ELSE v.m
        sign == IF v.m < 0 THEN <<"-">> ELSE <<>>
        digits == str(a)
        decpt == Len(digits) - v.e
        exp == 1 - decpt
    IN  IF a = 0 THEN sign \o Chars("0.0")
        ELSE IF decpt > 0 - 4
        THEN sign \o str(a \div Pow10(v.e)) \o <<".">> \o
             (IF v.e = 0 THEN <<"0">>
              ELSE LET f == str(a % Pow10(v.e)) IN Zeros(v.e - Len(f)) \o f)
        ELSE sign \o <<Head(digits)>> \o
             (IF Len(digits) > 1 THEN <<".">> \o Tail(digits) ELSE <<>>) \o
             Chars("e-") \o (IF exp < 10 THEN <<"0">> ELSE <<>>) \o str(exp)

Indent(n) == [i \in 1..n |-> " "]

RECURSIVE dumps_value(_, _), dumps_items(_, _, _)
dumps_value(v, level) ==
    IF v.t = "str" THEN encode_basestring_ascii(v.s)
    ELSE IF v.t = "num" THEN float_repr(v)
    ELSE IF v.t = "dict"
    THEN IF v.d = <<>> THEN Chars("{}")
         ELSE <<"{", LF>> \o dumps_items(v.d, 1, level + 1) \o
              <<LF>> \o Indent(2 * level) \o <<"}">>
    ELSE Chars("null")

dumps_items(items, i, level) ==
    Indent(2 * level) \o encode_basestring_ascii(items[i].k) \o <<":", " ">> \o
    dumps_value(items[i].v, level) \o
    (IF i < Len(items) THEN <<",", LF>> \o dumps_items(items, i + 1, level) ELSE <<>>)

dumps(obj) == dumps_value(obj, 0)

----------------------------------------------------------------------------
\* message_json.encode('utf-8'), line 89, and the decoding of the payload.

\* The grave accent (U+0060), written as a token of its own.
Grave == "U+0060"

\* The characters of codes 32 to 126, in order.
Printable == Chars(" !\"#$%&'()*+,-./0123456789:;<=>?@ABCDEFGHIJKLMNOPQRSTUVWXYZ[\\]^_") \o
             <<Grave>> \o Chars("abcdefghijklmnopqrstuvwxyz{|}~")

\* ord(c) of an ASCII character.
ord(c) == IF c = LF THEN 10 ELSE 31 + CHOOSE i \in 1..Len(Printable) : Printable[i] = c

chr(n) == IF n = 10 THEN LF ELSE Printable[n - 31]

encode(s) == Flatten([i \in 1..Len(s) |->
                 IF IsNonAscii(s[i]) THEN NonAsciiOf(s[i]).utf8 ELSE <<ord(s[i])>>])

\* bytes.decode('utf-8'): a byte below 128 is a character, a byte from 192 on
\* leads a two-byte character, a byte in between continues one.
decode(b) ==
    Flatten([i \in 1..Len(b) |->
        IF b[i] < 128 THEN <<chr(b[i])>>
        ELSE IF b[i] >= 192
        THEN LET x == CHOOSE x \in 1..Len(NonAscii) : NonAscii[x].utf8 = SubSeq(b, i, i + 1)
             IN  <<NonAscii[x].c>>
        ELSE <<>>])

----------------------------------------------------------------------------
\* json.loads, the decoder a consumer of the queue applies to the payload.

EOF == "EOF"

At(t, i) == IF i <= Len(t) THEN t[i] ELSE EOF

JSONDecodeError == [ok |-> FALSE, v |-> None, i |-> 0]

Parsed(v, i) == [ok |-> TRUE, v |-> v, i |-> i]

RECURSIVE SkipWs(_, _)
SkipWs(t, i) == IF At(t, i) \in {" ", LF} THEN SkipWs(t, i + 1) ELSE i

RECURSIVE ScanDigits(_, _)
ScanDigits(t, i) == IF IsDigit(At(t, i)) THEN ScanDigits(t, i + 1) ELSE i

\* The number of backslashes in a row that end just before position k.
BackslashesBefore(t, k) ==
    CHOOSE n \in 0..(k - 1) :
        /\ \A j \in (k - n)..(k - 1) : t[j] = "\\"
        /\ (n = k - 1 \/ t[k - n - 1] # "\\")

\* The character at k follows a backslash that escapes it.
Escaped(t, k) == BackslashesBefore(t, k) % 2 = 1

IsClosingQuote(t, k) == k > Len(t) \/ (t[k] = "\"" /\ ~Escaped(t, k))

\* The position of the quote that closes the string whose text starts at i,
\* or Len(t) + 1 when none does.
StringEnd(t, i) ==
    CHOOSE j \in i..(Len(t) + 1) :
        IsClosingQuote(t, j) /\ \A k \in i..(j - 1) : ~IsClosingQuote(t, k)

\* The character at k is one of the four hex digits of a \u escape.
InUnicodeEscape(t, i, k) ==
    \E p \in (k - 4)..(k - 1) : p >= i /\ t[p] = "u" /\ Escaped(t, p)

KnownUnicodeEscape(t, k) ==
    k + 4 <= Len(t) /\ \E x \in 1..Len(NonAscii) : NonAscii[x].hex = SubSeq(t, k + 1, k + 4)

\* The characters that the character at k of a string's text stands for.
Unescaped(t, i, k) ==
    IF Escaped(t, k)
    THEN IF t[k] = "n" THEN <<LF>>
         ELSE IF t[k] = "u"
         THEN <<NonAscii[CHOOSE x \in 1..Len(NonAscii) :
                             NonAscii[x].hex = SubSeq(t, k + 1, k + 4)].c>>
         ELSE <<t[k]>>
    ELSE IF t[k] = "\\" \/ InUnicodeEscape(t, i, k) THEN <<>>
    ELSE <<t[k]>>

\* i is just after the opening quote.
ScanString(t, i) ==
    LET j == StringEnd(t, i)
    IN  IF /\ j <= Len(t)
           /\ \A k \in i..(j - 1) :
                  /\ t[k] # LF
                  /\ Escaped(t, k) => \/ t[k] \in {"\"", "\\", "n"}
                                      \/ t[k] = "u" /\ KnownUnicodeEscape(t, k)
        THEN Parsed(Str(Flatten([k \in 1..(j - i) |-> Unescaped(t, i, i + k - 1)])), j + 1)
        ELSE JSONDecodeError

ScanNumber(t, i) ==
    LET neg == At(t, i) = "-"
        a == IF neg THEN i + 1 ELSE i
        b == ScanDigits(t, a)
        hasFrac == At(t, b) = "."
        c == IF hasFrac THEN ScanDigits(t, b + 1) ELSE b
        hasExp == At(t, c) \in {"e", "E"}
        expNeg == hasExp /\ At(t, c + 1) = "-"
        d == IF ~hasExp THEN c ELSE IF At(t, c + 1) \in {"-", "+"} THEN c + 2 ELSE c + 1
        z == IF hasExp THEN ScanDigits(t, d) ELSE c
        frac == IF hasFrac THEN SubSeq(t, b + 1, c - 1) ELSE <<>>
        mant == DecimalValue(SubSeq(t, a, b - 1) \o frac)
        exp == IF hasExp THEN DecimalValue(SubSeq(t, d, z - 1)) ELSE 0
        scale == IF expNeg THEN Len(frac) + exp ELSE Len(frac) - exp
        signed == IF neg THEN 0 - mant ELSE mant
    IN  IF b = a \/ (hasFrac /\ c = b + 1) \/ (hasExp /\ z = d) THEN JSONDecodeError
        ELSE IF scale >= 0 THEN Parsed(Float(signed, scale), z)
        ELSE Parsed(Float(signed * Pow10(0 - scale), 0), z)

RECURSIVE ScanValue(_, _), ScanMembers(_, _, _)
ScanValue(t, i) ==
    LET c == At(t, i)
    IN  IF c = "\"" THEN ScanString(t, i + 1)
        ELSE IF c = "-" \/ IsDigit(c) THEN ScanNumber(t, i)
        ELSE IF c = "{"
        THEN IF At(t, SkipWs(t, i + 1)) = "}"
             THEN Parsed(Dict(<<>>), SkipWs(t, i + 1) + 1)
             ELSE ScanMembers(t, SkipWs(t, i + 1), <<>>)
        ELSE IF i + 3 <= Len(t) /\ SubSeq(t, i, i + 3) = Chars("null")
        THEN Parsed(None, i + 4)
        ELSE JSONDecodeError

\* The member "key": value that starts at i, and the position after the
\* white space that follows it.
ScanMember(t, i) ==
    LET k == IF At(t, i) = "\"" THEN ScanString(t, i + 1) ELSE JSONDecodeError
        colon == SkipWs(t, k.i)
        v == IF k.ok /\ At(t, colon) = ":" THEN ScanValue(t, SkipWs(t, colon + 1))
             ELSE JSONDecodeError
    IN  [ok |-> v.ok, item |-> [k |-> k.v.s, v |-> v.v], i |-> SkipWs(t, v.i)]

\* i is at the opening quote of a key; acc is the items read so far.
ScanMembers(t, i, acc) ==
    LET m == ScanMember(t, i)
    IN  IF m.ok /\ At(t, m.i) = ","
        THEN ScanMembers(t, SkipWs(t, m.i + 1), Append(acc, m.item))
        ELSE IF m.ok /\ At(t, m.i) = "}" THEN Parsed(Dict(Append(acc, m.item)), m.i + 1)
        ELSE JSONDecodeError

\* The value of the document, or ok = FALSE when the text is not one document.
loads(t) ==
    LET r == ScanValue(t, SkipWs(t, 1))
    IN  IF r.ok /\ SkipWs(t, r.i) > Len(t) THEN r ELSE JSONDecodeError

----------------------------------------------------------------------------
\* The path of one record through lines 116, 86 and 89, taken alone: the
\* record is generated, serialized, and encoded into the payload of the put,
\* for every state of the random generator tried and for successive calls.

\* States of the random generator that make the uniform draw of the amount
\* 0, 1 / RandomScale, 1 / 2 and 1 - 1 / RandomScale.
EdgeSeeds == {160984, 47225, 660984, 274743}

Seeds == 0..MaxSeed \cup EdgeSeeds

GenInit ==
    /\ MainInit
    /\ environ = [n \in {} |-> <<>>]
    /\ rng \in Seeds
    /\ message_data = None
    /\ message_json = <<>>
    /\ payload = <<>>
    /\ gpc = "L116"
    /\ gcalls = 0

\* line 116: transaction = generate_transaction()
GenerateRecord ==
    /\ gpc = "L116"
    /\ gcalls < MaxCalls
    /\ message_data' = generate_transaction(rng)
    /\ rng' = Draw(rng, DrawsPerCall)
    /\ gcalls' = gcalls + 1
    /\ gpc' = "L86"
    /\ UNCHANGED <<message_json, payload, mainv>>

\* line 86: message_json = json.dumps(message_data, indent=2)
DumpRecord ==
    /\ gpc = "L86"
    /\ message_json' = dumps(message_data)
    /\ gpc' = "L89"
    /\ UNCHANGED <<rng, message_data, payload, gcalls, mainv>>

\* line 89: the argument of queue.put, message_json.encode('utf-8')
EncodeRecord ==
    /\ gpc = "L89"
    /\ payload' = encode(message_json)
    /\ gpc' = "L116"
    /\ UNCHANGED <<rng, message_data, message_json, gcalls, mainv>>

GenNext == GenerateRecord \/ DumpRecord \/ EncodeRecord

GenSpec == GenInit /\ [][GenNext]_vars

----------------------------------------------------------------------------
\* Vocabulary of the properties.

StartupStmts == {"L23", "L96", "L65", "L70", "L78", "L79", "L108", "L109"}
StoppingStmts == {"L137", "L139", "L142", "L143", "L145"}

Logged(kind) == \E i \in 1..Len(log) : log[i].kind = kind

\* pymqi.connect raised.
ConnectFailed == Raised("Exception", "L70") \in raised

\* connect_to_mq returned to main: control is, or has been, past line 106.
ConnectReturned ==
    \/ pc \notin StartupStmts \cup {"done"}
    \/ \E r \in raised : r.at \notin StartupStmts

\* qmgr.disconnect() raised.
DisconnectFailed == Raised("Exception", "L142") \in raised

\* generate_transaction or time.sleep raised an Exception.
LoopError == \E r \in raised : r.kind # "KeyboardInterrupt" /\ r.at \in {"L116", "L134"}

\* The entries of the per-message success summary (lines 123-128), in order.
SentEntries == SelectSeq(log, LAMBDA e : e.kind = "sent")

\* The lifecycle state of section 4.3 that a statement belongs to.
Phase(p) ==
    CASE p \in StartupStmts -> "STARTING"
      [] p = "L111" -> "CONNECTED"
      [] p \in {"L116", "L134"} -> "ITERATING"
      [] p \in SendStmts \cup {"L131"} -> "PUBLISHING"
      [] p \in StoppingStmts -> "STOPPING"
      [] OTHER -> "STOPPED"

\* r is an Exception raised by send_message.
PublishFailure(r) == r.kind = "Exception" /\ r.at \in {"L83", "L89", "L91"}

----------------------------------------------------------------------------
\* C1: when pymqi.connect fails, the script only logs the failure and
\* returns: it never enters the loop, so no record is generated, no publish
\* is attempted, connect is called once, disconnect is not called and the
\* message count is 0; when main returns, the failure has been logged.
C1_ConnectFailureAbortsStartup ==
    ConnectFailed =>
        /\ pc \in {"L108", "L109", "done"}
        /\ generated = 0
        /\ attempts = <<>>
        /\ mq = <<>>
        /\ succeeded = 0
        /\ message_count = 0
        /\ connectCalls = 1
        /\ disconnectCalls = 0
        /\ (exit = "returned" => Logged("connect_failed"))

C1_Witness == ConnectFailed /\ pc = "done" /\ exit = "returned"

\* C2: an Exception raised by send_message is caught at line 130: control
\* goes to the log statement of line 131 and from there to the sleep, the
\* next generation and the next call of send_message; the script is in its
\* shutdown statements or stopped only when something other than a publish
\* failure was raised.
C2_PublishFailureContinues ==
    [][ /\ (failed' = failed + 1 => pc' = "L131" /\ exit' = "running")
        /\ (pc = "L131" /\ raised' = raised =>
               pc' = "L134" /\ log' = Append(log, Entry("send_failed", 0)))
        /\ (pc = "L134" /\ raised' = raised => pc' = "L116" /\ sleeps' = sleeps + 1)
        /\ (pc = "L116" /\ raised' = raised =>
               pc' = "L120" /\ transaction' = generated + 1)
        /\ (pc = "L120" /\ raised' = raised =>
               pc' = "L83" /\ attempts' = Append(attempts, transaction'))
        /\ (pc' \in StoppingStmts \cup {"done"} =>
               \E r \in raised' : ~PublishFailure(r))
      ]_vars

\* Two publishes in a row failed, the very first included, nothing else was
\* raised, and the third record is being published.
C2_Witness ==
    /\ failed = 2
    /\ succeeded = 0
    /\ pc = "L83"
    /\ attempts = <<1, 2, 3>>
    /\ \A r \in raised : PublishFailure(r)

\* C3: connect is called once and, once connect_to_mq has returned, every
\* way of stopping calls disconnect exactly once.
C3_ReleasedExactlyOnce ==
    /\ connectCalls <= 1
    /\ disconnectCalls <= 1
    /\ (pc = "done" /\ ConnectReturned => disconnectCalls = 1)

\* C4 as stated: in every reachable state the message counter equals the
\* number of publishes that have succeeded so far.
C4_CounterEqualsSuccesses == message_count = succeeded

\* C4 as amended: the counter changes only by the +1 of line 121, which runs
\* only after send_message returned normally; a failed publish leaves it
\* unchanged; it never exceeds the number of successful publishes and is one
\* short of it only between send_message's return and line 121, or from then
\* on when a KeyboardInterrupt is raised at line 121; the k-th success
\* summary carries the number k, the counter value after the k-th increment.
C4_CounterTracksSuccesses ==
    /\ [](/\ message_count <= succeeded
          /\ succeeded <= message_count + 1
          /\ (succeeded = message_count + 1 =>
                 pc = "L121" \/ Raised("KeyboardInterrupt", "L121") \in raised)
          /\ (succeeded = 0 => message_count = 0)
          /\ Len(SentEntries) <= message_count
          /\ \A i \in 1..Len(SentEntries) : SentEntries[i].n = i)
    /\ [][ /\ (message_count' # message_count =>
                 message_count' = message_count + 1 /\ pc = "L121")
           /\ (failed' = failed + 1 => message_count' = message_count)
           /\ (Len(SentEntries') > Len(SentEntries) =>
                 /\ pc = "L123"
                 /\ log' = Append(log, Entry("sent", message_count))
                 /\ Len(SentEntries') = message_count)
         ]_vars

\* A second publish succeeded and was counted after a failed one.
C4_Witness ==
    /\ message_count = 2
    /\ succeeded = 2
    /\ failed = 1
    /\ pc = "L134"
    /\ Len(SentEntries) = 2

\* C5: a shutdown that called disconnect has reported the total number of
\* successful publishes by the time the script has stopped, whether or not
\* disconnect succeeded (interrupts raised inside the finally block set aside).
C5_TotalReported ==
    pc = "done" /\ disconnectCalls > 0
            /\ (\A r \in raised : r.at \notin {"L142", "L143", "L145"} \/ r.kind = "Exception")
        => \E i \in 1..Len(log) : log[i] = Entry("total", succeeded)

\* C6: an exception raised by qmgr.disconnect() is caught by the bare except
\* of line 144: control goes to line 145 and the script stops; an exception
\* leaves main then only if a KeyboardInterrupt was raised in an except
\* clause of the loop or at line 145.
C6_DisconnectFailureSwallowed ==
    /\ [](DisconnectFailed =>
            /\ pc \in {"L145", "done"}
            /\ (exit = "raised" =>
                   pending \/ Raised("KeyboardInterrupt", "L145") \in raised))
    /\ (DisconnectFailed ~> pc = "done")

C6_Witness == DisconnectFailed /\ pc = "done" /\ exit = "returned"

\* C7: every queue handle opened by send_message is closed by the same call,
\* so at most one handle is open and none is open when the loop sleeps or
\* generates the next record.
C7_HandleClosedByPublish ==
    /\ handles <= 1
    /\ (pc \in {"L134", "L116"} => handles = 0)

\* C8: the records passed to send_message are distinct and in generation
\* order; the record being published is the one generated last, in the same
\* iteration; when a record is generated no call of send_message is under way.
C8_EachRecordSubmittedOnce ==
    /\ \A i, j \in 1..Len(attempts) : i < j => attempts[i] < attempts[j]
    /\ \A i \in 1..Len(attempts) : attempts[i] \in 1..generated
    /\ (pc \in {"L83", "L86", "L89", "L91", "L92"} =>
           /\ attempts # <<>>
           /\ attempts[Len(attempts)] = generated
           /\ transaction = generated
           /\ Len(attempts) = succeeded + failed + 1)
    /\ (pc \in {"L116", "L120"} => Len(attempts) = succeeded + failed)

\* The record after a failed one is being published.
C8_Witness ==
    /\ pc = "L89"
    /\ attempts = <<1, 2>>
    /\ failed = 1
    /\ mq = <<>>

\* C9: after generate_transaction or time.sleep raised an Exception, control
\* is in the handler of line 139 and then in the finally block, where
\* disconnect is called once, and the script stops; the error is logged
\* (unless an interrupt cuts line 139 short) and no record is generated or
\* published any more.
C9_LoopErrorShutsDown ==
    /\ [](LoopError =>
            /\ pc \in {"L139", "L142", "L143", "L145", "done"}
            /\ (pc \in {"L143", "L145", "done"} => disconnectCalls = 1)
            /\ (pc # "L139" /\ Raised("KeyboardInterrupt", "L139") \notin raised =>
                   Logged("loop_error")))
    /\ [][LoopError =>
            /\ generated' = generated
            /\ attempts' = attempts
            /\ mq' = mq
            /\ succeeded' = succeeded]_vars
    /\ (LoopError ~> pc = "done")

C9_Witness ==
    /\ Raised("Exception", "L116") \in raised
    /\ pc = "done"
    /\ exit = "returned"
    /\ disconnectCalls = 1
    /\ generated = 1

\* The lifecycle transitions of section 4.3.
Lifecycle ==
    { <<"STARTING", "CONNECTED">>, <<"CONNECTED", "ITERATING">>,
      <<"ITERATING", "PUBLISHING">>, <<"PUBLISHING", "ITERATING">>,
      <<"ITERATING", "STOPPING">>, <<"PUBLISHING", "STOPPING">>,
      <<"STOPPING", "STOPPED">>, <<"STARTING", "STOPPED">> }

\* C10: the lifecycle state changes only along STARTING -> CONNECTED ->
\* ITERATING <-> PUBLISHING -> STOPPING -> STOPPED and STARTING -> STOPPED:
\* STOPPED is never left, STOPPING is entered only from the loop states, and
\* the loop states only through CONNECTED.
C10_LifecycleTransitions ==
    [][Phase(pc') = Phase(pc) \/ <<Phase(pc), Phase(pc')>> \in Lifecycle]_vars

\* C11: every call of send_message, whether it returns or raises, is followed
\* by exactly one time.sleep(MESSAGE_INTERVAL) before the next record is
\* generated: when a record is generated or submitted there have been as
\* many sleeps as publish attempts, from the call of send_message to the
\* sleep there is one sleep less, and each sleep lasts the configured interval.
C11_OneSleepPerAttempt ==
    /\ (pc \in {"L116", "L120"} => sleeps = Len(attempts))
    /\ (pc \in {"L83", "L86", "L89", "L91", "L92", "L121", "L123", "L131", "L134"} =>
           sleeps + 1 = Len(attempts))
    /\ slept = sleeps * MESSAGE_INTERVAL

\* The third record is being published after a failed and a successful
\* publish, each followed by one sleep.
C11_Witness ==
    /\ pc = "L83"
    /\ attempts = <<1, 2, 3>>
    /\ failed = 1
    /\ succeeded = 1
    /\ sleeps = 2
    /\ MESSAGE_INTERVAL = 12
    /\ slept = 24

\* The configured interval is malformed: not an integer, or negative.
MalformedInterval ==
    LET r == int(getenv("MESSAGE_INTERVAL", <<"5">>))
    IN  ~r.ok \/ r.value < 0

\* C12: with a malformed interval in the environment (a negative one in
\* particular) the script stops at startup: send_message is never called
\* and nothing is put on the queue.
C12_MalformedIntervalIsStartupFatal ==
    MalformedInterval => attempts = <<>> /\ mq = <<>>

----------------------------------------------------------------------------
\* The schema of the transaction record.

TopKeys == <<Chars("transaction_id"), Chars("timestamp"), Chars("customer_id"),
             Chars("customer_name"), Chars("customer_email"),
             Chars("transaction_type"), Chars("category"), Chars("amount"),
             Chars("currency"), Chars("status"), Chars("merchant_id"),
             Chars("merchant_name"), Chars("location"), Chars("payment_method"),
             Chars("device_type"), Chars("ip_address"), Chars("user_agent"),
             Chars("metadata")>>
LocationKeys == <<Chars("city"), Chars("country"), Chars("latitude"), Chars("longitude")>>
MetadataKeys == <<Chars("session_id"), Chars("referrer"), Chars("campaign_id")>>

Keys(v) == [i \in 1..Len(v.d) |-> v.d[i].k]

Has(v, key) == \E i \in 1..Len(v.d) : v.d[i].k = Chars(key)

Get(v, key) == v.d[CHOOSE i \in 1..Len(v.d) : v.d[i].k = Chars(key)].v

\* Every key of the list occurs once, and no other key.
HasExactly(v, keys) ==
    /\ v.t = "dict"
    /\ Len(v.d) = Len(keys)
    /\ \A i \in 1..Len(keys) : \E j \in 1..Len(v.d) : v.d[j].k = keys[i]

NoneNull(v) == \A i \in 1..Len(v.d) : v.d[i].v.t # "null"

IsOneOf(v, names) == v.t = "str" /\ \E n \in names : v.s = Chars(n)

\* The amount in cents, when it is a whole number of cents.
IsCents(v) == v.t = "num" /\ v.e <= 2

Cents(v) == v.m * Pow10(2 - v.e)

ConformsToSchema(r) ==
    /\ HasExactly(r, TopKeys) /\ NoneNull(r)
    /\ HasExactly(Get(r, "location"), LocationKeys) /\ NoneNull(Get(r, "location"))
    /\ HasExactly(Get(r, "metadata"), MetadataKeys) /\ NoneNull(Get(r, "metadata"))
    /\ IsOneOf(Get(r, "transaction_type"),
               {"purchase", "refund", "payment", "transfer", "deposit", "withdrawal"})
    /\ IsOneOf(Get(r, "category"),
               {"electronics", "clothing", "food", "services", "utilities", "entertainment"})
    /\ IsOneOf(Get(r, "currency"), {"USD", "EUR", "GBP"})
    /\ IsOneOf(Get(r, "status"), {"completed", "pending", "failed", "processing"})
    /\ IsOneOf(Get(r, "payment_method"),
               {"credit_card", "debit_card", "paypal", "bank_transfer", "cash"})
    /\ IsOneOf(Get(r, "device_type"), {"mobile", "web", "pos", "atm"})
    /\ IsCents(Get(r, "amount"))
    /\ Cents(Get(r, "amount")) \in 1000..500000

\* C13: every record generate_transaction returns, at the first call and at
\* every later one, has exactly the fields of the schema, none of them null,
\* its enum fields hold a value of their listed set, and its amount is a
\* whole number of cents between 1000 and 500000 (10.00 to 5000.00).
C13_RecordConformsToSchema == gcalls > 0 => ConformsToSchema(message_data)

\* A second record has been generated, after a first one whose amount was the
\* upper bound 5000.00 and whose text is still in message_json.
C13_Witness ==
    /\ gcalls = 2
    /\ gpc = "L86"
    /\ Get(loads(message_json).v, "amount") = Float(500000, 2)
    /\ Cents(Get(message_data, "amount")) < 500000

\* C14: the text a consumer decodes from the payload of the put is a JSON
\* document whose value is the generated record that was passed to
\* send_message: the same keys in the same order with the same values.
C14_PayloadRoundTrip ==
    gcalls > 0 /\ gpc = "L116" =>
        /\ loads(decode(payload)).ok
        /\ loads(decode(payload)).v = message_data

\* A payload has been built from a record whose name needs escapes, whose
\* latitude is written in scientific notation and whose amount has a zero
\* after the point.
C14_Witness ==
    /\ gcalls > 0
    /\ gpc = "L116"
    /\ payload # <<>>
    /\ \E i \in 1..Len(Get(message_data, "customer_name").s) :
           Get(message_data, "customer_name").s[i] \in {EAcute, "\""}
    /\ Get(Get(message_data, "location"), "latitude").m = 2
    /\ Get(Get(message_data, "location"), "latitude").e = 5

\* The statements of the publish call (line 120 and send_message) and the
\* sleep, where the script blocks.
BlockingStmts == {"L120", "L83", "L86", "L89", "L91", "L92", "L134"}

\* A KeyboardInterrupt was raised during a publish call or during the sleep.
InterruptedWhileBlocked ==
    \E r \in raised : r.kind = "KeyboardInterrupt" /\ r.at \in BlockingStmts

\* C15: a KeyboardInterrupt raised during the publish call or the sleep goes
\* to the handler of line 136, not to the publish-failure handler of line 130
\* (nothing is counted or logged as a failed publish); from then on control
\* is in the shutdown statements or stopped, no record is generated or
\* submitted and no sleep is taken; the script stops, and when it has stopped
\* disconnect has been called once, the connection being no longer held
\* unless disconnect itself raised or was interrupted.
C15_InterruptWhileBlockedShutsDown ==
    /\ [][(pc \in BlockingStmts /\ interrupts' # interrupts) =>
             (pc' = "L137" /\ failed' = failed /\ log' = log)]_vars
    /\ [](InterruptedWhileBlocked =>
            /\ pc \in {"L137", "L142", "L143", "L145", "done"}
            /\ (pc \in {"L143", "L145", "done"} => disconnectCalls = 1)
            /\ (pc = "done" /\ held =>
                   DisconnectFailed \/ Raised("KeyboardInterrupt", "L142") \in raised))
    /\ [][InterruptedWhileBlocked =>
             (/\ generated' = generated
              /\ attempts' = attempts
              /\ failed' = failed
              /\ sleeps' = sleeps
              /\ (Logged("send_failed")' => Logged("send_failed")))]_vars
    /\ (InterruptedWhileBlocked ~> pc = "done")

\* The put of the second record was interrupted, after a first publish and a
\* sleep; the script has stopped with the connection released.
C15_Witness ==
    /\ raised = {Raised("KeyboardInterrupt", "L89")}
    /\ attempts = <<1, 2>>
    /\ succeeded = 1
    /\ failed = 0
    /\ pc = "done"
    /\ exit = "returned"
    /\ disconnectCalls = 1
    /\ ~held
    /\ Logged("stopped_by_user")

\* The statements of a publish attempt: the call of line 120 and send_message.
PublishStmts == BlockingStmts \ {"L134"}

\* C16: whenever a publish attempt is under way, pymqi.connect has returned
\* the connection (one call, not failed), the connection is held and
\* disconnect has not been called; a record is submitted or put on the queue
\* only in such a state.
C16_PublishOnlyWhileConnected ==
    /\ [](pc \in PublishStmts =>
            /\ held
            /\ connectCalls = 1
            /\ ~ConnectFailed
            /\ ConnectReturned
            /\ disconnectCalls = 0)
    /\ [][(attempts' # attempts \/ mq' # mq \/ handles' # handles) =>
             (pc \in PublishStmts /\ held /\ disconnectCalls = 0)]_vars

\* The third record is being put on the queue, after two failed publishes, on
\* the connection made at startup.
C16_Witness ==
    /\ pc = "L89"
    /\ attempts = <<1, 2, 3>>
    /\ failed = 2
    /\ held
    /\ connectCalls = 1
    /\ disconnectCalls = 0

====
